---- MODULE Spec2Model ----
(***************************************************************************)
(* Model of the visual segmentation and highlight-assembly core of         *)
(* AutoReel-Agent:                                                         *)
(*   utils/video_analyzer.py   extract_average_colors, cluster_colors,     *)
(*                             get_speaker_segments                        *)
(*   utils/ffmpeg_utils.py     concat_segments_visual                      *)
(*   agents/highlight_agent.py HighlightAgent.detect                       *)
(*   models/__init__.py        Transcript.get_segments_in_range            *)
(*   scripts/split_by_speaker.py main                                      *)
(*   run_highlights.py         run_highlights                              *)
(*                                                                         *)
(* Times are whole seconds.  Centroids are exact decimal fractions: a      *)
(* centroid is the pair (c, e) standing for the vector c / 10^e, so that   *)
(* centroid*0.9 + color*0.1 is (9*c + color*10^e) / 10^(e+1) with no       *)
(* rounding.                                                               *)
(***************************************************************************)
EXTENDS Integers, Sequences, FiniteSets, TLC

VARIABLES
    pc,            \* position of the running function
    interval,      \* 1.0 / fps of get_speaker_segments
    threshold,     \* threshold of cluster_colors
    timestamp,     \* extract_average_colors: local timestamp
    samples,       \* the sample list (dicts timestamp, color, speaker_id)
    clusters,      \* cluster_colors: local list clusters
    idx,           \* cluster_colors: position of the for loop over samples
    run,           \* number of the current cluster_colors call on the list
    firstIds,      \* speaker ids returned by the first call
    before,        \* the cluster list as the latest loop iteration found it
    segments,      \* get_speaker_segments: returned list
    ranges,        \* concat_segments_visual: parameter segments
    filter_parts,  \* concat_segments_visual: local filter_parts
    concat_ins,    \* concat_segments_visual: local concat_ins
    output,        \* concat_segments_visual: what the call gave back
    transcript,    \* Transcript.segments
    min_duration,  \* config reels.min_duration
    max_highlights,\* HighlightAgent.detect parameter
    received,      \* number of candidates taken from the LLM's list
    candidate,     \* the candidate the loop took last, as the loop left it
    cleaned,       \* HighlightAgent.detect: local cleaned_highlights
    dropped,       \* ids of the candidates the loop skipped
    result,        \* HighlightAgent.detect: returned list
    speaker_map,   \* split_by_speaker: local speaker_map, in insertion order
    grouped,       \* split_by_speaker: segments the grouping loop has placed
    calls,         \* split_by_speaker: the concat_segments_visual calls made
    runs,          \* two cluster_colors calls in progress, each with its locals
    total_duration,\* Transcript.total_duration
    taken,         \* run_highlights: the highlight of agent.detect's list taken last
    scanned,       \* run_highlights: highlights the filter loop has taken
    single_speaker_highlights, \* run_highlights: local list of that name
    written        \* run_highlights: the list dumped to the output file

vars == <<pc, interval, threshold, timestamp, samples, clusters, idx, run,
          firstIds, before, segments, ranges, filter_parts, concat_ins, output,
          transcript, min_duration, max_highlights, received, candidate,
          cleaned, dropped, result, speaker_map, grouped, calls, runs,
          total_duration, taken, scanned, single_speaker_highlights,
          written>>

analyzerVars == <<interval, threshold, timestamp, samples, clusters, idx, run,
                  firstIds, before, segments>>
stitchVars == <<ranges, filter_parts, concat_ins, output>>
detectVars == <<transcript, min_duration, max_highlights, received, candidate,
                cleaned, dropped, result>>
splitVars == <<speaker_map, grouped, calls>>
runVars == <<total_duration, taken, scanned, single_speaker_highlights,
             written>>
callerVars == <<splitVars, runs, runVars>>

----------------------------------------------------------------------------
(* Bounds and input pools *)

MaxSamples == 4
MaxRanges == 3
MaxSegs == 3
MaxCandidates == 2
MaxPairSamples == 2
MaxReturned == 7

\* average frame colours the decoder may deliver
Colors == { <<0, 0, 0>>, <<30, 0, 0>>, <<20, 0, 0>>, <<0, 40, 0>>, <<24, 32, 0>> }

\* thresholds: cluster_colors' default and get_speaker_segments' default
Thresholds == {30, 40}

\* sampling intervals 1/fps: fps = 1.0 (default) and fps = 0.5 (split_by_speaker)
Intervals == {1, 2}

NoId == -1

----------------------------------------------------------------------------
(* Arithmetic helpers *)

Abs(x) == IF x < 0 THEN -x ELSE x

Max2(a, b) == IF a >= b THEN a ELSE b

Min2(a, b) == IF a <= b THEN a ELSE b

RECURSIVE Pow10(_)
Pow10(e) == IF e = 0 THEN 1 ELSE 10 * Pow10(e - 1)

----------------------------------------------------------------------------
(* cluster_colors *)

\* the mutant of NewCentroid: the new centroid damped like an update
DampedCentroid(color) == [c |-> color, e |-> 1]

\* clusters.append(color): the centroid is the colour itself
NewCentroid(color) == [c |-> color, e |-> 0]

\* the mutant of EMA: the two weights exchanged
EMASwapped(cen, color) ==
    [c |-> [j \in 1..3 |-> cen.c[j] + 9 * color[j] * Pow10(cen.e)],
     e |-> cen.e + 1]

\* clusters[i] * 0.9 + color * 0.1
EMA(cen, color) ==
    [c |-> [j \in 1..3 |-> 9 * cen.c[j] + color[j] * Pow10(cen.e)],
     e |-> cen.e + 1]

\* |color - centroid|^2 compared with th^2, both scaled by 10^(2e).  The sum
\* of squares is split in base 10^e so that no intermediate leaves 32 bits:
\* sum = (A + b1) * M^2 + rest, 0 <= rest < M^2.
DistParts(color, cen) ==
    LET M  == Pow10(cen.e)
        d  == [j \in 1..3 |-> Abs(color[j] * M - cen.c[j])]
        q  == [j \in 1..3 |-> d[j] \div M]
        r  == [j \in 1..3 |-> d[j] % M]
        A  == q[1]*q[1] + q[2]*q[2] + q[3]*q[3]
        B  == 2 * (q[1]*r[1] + q[2]*r[2] + q[3]*r[3])
        C  == r[1]*r[1] + r[2]*r[2] + r[3]*r[3]
        b  == B + (C \div M)
    IN  [hi |-> A + (b \div M), rest |-> <<b % M, C % M>>]

\* the mutant of Matches: dist <= threshold
MatchesOrEqual(color, cen, th) ==
    LET p == DistParts(color, cen)
    IN  \/ p.hi < th * th
        \/ p.hi = th * th /\ p.rest = <<0, 0>>

\* np.linalg.norm(color - cluster_avg) < threshold
Matches(color, cen, th) == DistParts(color, cen).hi < th * th

\* the mutant of FirstMatch: the scan without its break, the last match wins
LastMatch(color, cl, th) ==
    LET ms == {i \in 1..Len(cl) : Matches(color, cl[i], th)}
    IN  IF ms = {} THEN 0 ELSE CHOOSE i \in ms : \A j \in ms : i >= j

\* for i, cluster_avg in enumerate(clusters): the first index that matches, in
\* list order (1-based here; 0 when the scan finds none)
FirstMatch(color, cl, th) ==
    LET ms == {i \in 1..Len(cl) : Matches(color, cl[i], th)}
    IN  IF ms = {} THEN 0 ELSE CHOOSE i \in ms : \A j \in ms : i <= j

\* the mutant of AppendCluster: the new cluster put at the head of the list
PrependCluster(cl, color) == <<NewCentroid(color)>> \o cl

\* clusters.append(color)
AppendCluster(cl, color) == Append(cl, NewCentroid(color))

\* the body of `for sample in samples` on a cluster list: the id the sample
\* is given and the list after it
Assign(cl, color, th) ==
    LET i == FirstMatch(color, cl, th)
    IN  IF i # 0
        THEN [id |-> i - 1, clusters |-> [cl EXCEPT ![i] = EMA(cl[i], color)]]
        ELSE [id |-> Len(cl), clusters |-> AppendCluster(cl, color)]

\* the ids the loop gives to a list of colours, starting from a cluster list
RECURSIVE ClusterFrom(_, _, _)
ClusterFrom(colors, th, cl) ==
    IF colors = <<>> THEN <<>>
    ELSE LET a == Assign(cl, Head(colors), th)
         IN  <<a.id>> \o ClusterFrom(Tail(colors), th, a.clusters)

\* the mutant of ClusterColors: the samples taken last to first
ClusterColorsBackward(colors, th) ==
    LET Reversed(q) == [k \in 1..Len(q) |-> q[Len(q) + 1 - k]]
    IN  Reversed(ClusterFrom(Reversed(colors), th, <<>>))

\* cluster_colors as a function of the colours of its samples: the ids
ClusterColors(colors, th) == ClusterFrom(colors, th, <<>>)

\* the mutant of NewClusterList: a list that outlives the call
StaleClusterList(old) == old

\* clusters = []
NewClusterList(old) == <<>>

\* sample["speaker_id"] of every sample, in list order
Ids(s) == [j \in 1..Len(s) |-> s[j].speaker_id]

----------------------------------------------------------------------------
(* get_speaker_segments: the scan of the annotated samples *)

\* f"Speaker {current_speaker}"
SpeakerLabel(id) == "Speaker " \o ToString(id)

\* the mutant of LastEnd: the last segment closed at the last sample itself
LastEndUnpadded(s, iv) == s[Len(s)].timestamp

\* samples[-1]["timestamp"] + (1.0 / fps)
LastEnd(s, iv) == s[Len(s)].timestamp + iv

\* the mutant of SpeakerChanged: a segment closed at every sample
AlwaysChanged(id, current_speaker) == TRUE

\* if samples[i]["speaker_id"] != current_speaker
SpeakerChanged(id, current_speaker) == id # current_speaker

\* for i in range(1, len(samples)): close the open segment where the id changes
RECURSIVE ScanSamples(_, _, _, _, _)
ScanSamples(s, i, current_speaker, start_time, acc) ==
    IF i > Len(s) THEN [segs |-> acc, cur |-> current_speaker, start |-> start_time]
    ELSE IF SpeakerChanged(s[i].speaker_id, current_speaker)
         THEN ScanSamples(s, i + 1, s[i].speaker_id, s[i].timestamp,
                          Append(acc, [start   |-> start_time,
                                       end     |-> s[i].timestamp,
                                       speaker |-> SpeakerLabel(current_speaker)]))
         ELSE ScanSamples(s, i + 1, current_speaker, start_time, acc)

\* the mutant of NoSamples: the guard left out
NeverEmpty(s) == FALSE

\* if not samples
NoSamples(s) == s = <<>>

\* what samples[0] does to the call when the list is empty
IndexError == "IndexError"

SpeakerSegments(s, iv) ==
    IF NoSamples(s) THEN <<>>
    ELSE IF Len(s) = 0 THEN IndexError
    ELSE LET r == ScanSamples(s, 2, s[1].speaker_id, s[1].timestamp, <<>>)
         IN  Append(r.segs, [start   |-> r.start,
                             end     |-> LastEnd(s, iv),
                             speaker |-> SpeakerLabel(r.cur)])

----------------------------------------------------------------------------
(* Values of the variables a specification does not use *)

AnalyzerIdle ==
    /\ interval = 1 /\ threshold = 30 /\ timestamp = 0 /\ samples = <<>>
    /\ clusters = <<>> /\ idx = 0 /\ run = 0 /\ firstIds = <<>>
    /\ before = <<>> /\ segments = <<>>

StitchIdle ==
    /\ ranges = <<>> /\ filter_parts = <<>> /\ concat_ins = <<>> /\ output = "none"

DetectIdle ==
    /\ transcript = <<>> /\ min_duration = 0 /\ max_highlights = 0
    /\ received = 0 /\ candidate = <<>> /\ cleaned = <<>> /\ dropped = <<>>
    /\ result = <<>>

SplitIdle ==
    /\ speaker_map = <<>> /\ grouped = 0 /\ calls = <<>>

RunIdle ==
    /\ total_duration = 0 /\ taken = <<>> /\ scanned = 0
    /\ single_speaker_highlights = <<>> /\ written = <<>>

CallerIdle ==
    /\ SplitIdle /\ runs = <<>> /\ RunIdle

----------------------------------------------------------------------------
(* The analyzer: extract_average_colors, cluster_colors, get_speaker_segments *)

Init ==
    /\ pc = "extract"
    /\ interval \in Intervals
    /\ threshold \in Thresholds
    /\ timestamp = 0
    /\ samples = <<>>
    /\ clusters = <<>>
    /\ idx = 0
    /\ run = 0
    /\ firstIds = <<>>
    /\ before = <<>>
    /\ segments = <<>>
    /\ StitchIdle
    /\ DetectIdle
    /\ CallerIdle

\* extract_average_colors: one frame read from the decoder's pipe
ReadFrame ==
    /\ pc = "extract"
    /\ Len(samples) < MaxSamples
    /\ \E color \in Colors :
         samples' = Append(samples, [timestamp  |-> timestamp,
                                     color      |-> color,
                                     speaker_id |-> NoId])
    /\ timestamp' = timestamp + interval
    /\ UNCHANGED <<pc, interval, threshold, clusters, idx, run, firstIds, before,
                   segments, stitchVars, detectVars, callerVars>>

\* extract_average_colors: the pipe is exhausted, the samples are returned
EndOfStream ==
    /\ pc = "extract"
    /\ pc' = "cluster_call"
    /\ UNCHANGED <<analyzerVars, stitchVars, detectVars, callerVars>>

\* cluster_colors: entry; an empty list is returned at once
ClusterCall ==
    /\ pc = "cluster_call"
    /\ run' = run + 1
    /\ IF samples = <<>>
       THEN /\ pc' = "cluster_ret"
            /\ UNCHANGED <<clusters, idx>>
       ELSE /\ pc' = "cluster_loop"
            /\ clusters' = NewClusterList(clusters)
            /\ idx' = 1
    /\ UNCHANGED <<interval, threshold, timestamp, samples, firstIds, before,
                   segments, stitchVars, detectVars, callerVars>>

\* cluster_colors: one iteration of `for sample in samples`
ClusterStep ==
    /\ pc = "cluster_loop"
    /\ idx <= Len(samples)
    /\ LET a == Assign(clusters, samples[idx].color, threshold)
       IN  /\ samples' = [samples EXCEPT ![idx].speaker_id = a.id]
           /\ clusters' = a.clusters
    /\ before' = clusters
    /\ idx' = idx + 1
    /\ UNCHANGED <<pc, interval, threshold, timestamp, run, firstIds, segments,
                   stitchVars, detectVars, callerVars>>

\* cluster_colors: return samples
ClusterReturn ==
    /\ pc = "cluster_loop"
    /\ idx > Len(samples)
    /\ pc' = "cluster_ret"
    /\ UNCHANGED <<analyzerVars, stitchVars, detectVars, callerVars>>

\* get_speaker_segments: the segments built from the annotated samples
BuildSegments ==
    /\ pc = "cluster_ret"
    /\ IF SpeakerSegments(samples, interval) = IndexError
       THEN /\ pc' = "raised"
            /\ segments' = segments
       ELSE /\ pc' = "segments_ret"
            /\ segments' = SpeakerSegments(samples, interval)
    /\ UNCHANGED <<interval, threshold, timestamp, samples, clusters, idx, run,
                   firstIds, before, stitchVars, detectVars, callerVars>>

Next ==
    \/ ReadFrame
    \/ EndOfStream
    \/ ClusterCall
    \/ ClusterStep
    \/ ClusterReturn
    \/ BuildSegments

Spec == Init /\ [][Next]_vars

\* a caller hands the list cluster_colors returned to cluster_colors again
ClusterAgain ==
    /\ pc = "cluster_ret"
    /\ run = 1
    /\ firstIds' = Ids(samples)
    /\ pc' = "cluster_call"
    /\ UNCHANGED <<interval, threshold, timestamp, samples, clusters, idx, run,
                   before, segments, stitchVars, detectVars, callerVars>>

NextRerun ==
    \/ ReadFrame
    \/ EndOfStream
    \/ ClusterCall
    \/ ClusterStep
    \/ ClusterReturn
    \/ ClusterAgain

SpecRerun == Init /\ [][NextRerun]_vars

----------------------------------------------------------------------------
(* concat_segments_visual *)

\* source ranges a caller may pass, in any order and any number of times;
\* the last two are malformed (end <= start)
RangePool ==
    { [start |-> 5, end |-> 10], [start |-> 20, end |-> 22], [start |-> 1, end |-> 4],
      [start |-> 0, end |-> 5],  [start |-> 3, end |-> 3],   [start |-> 4, end |-> 1] }

RECURSIVE SeqsUpTo(_, _)
SeqsUpTo(S, n) ==
    IF n = 0 THEN {<<>>}
    ELSE LET shorter == SeqsUpTo(S, n - 1)
         IN  shorter \cup {Append(q, x) : q \in {t \in shorter : Len(t) = n - 1}, x \in S}

RECURSIVE InsertByStart(_, _)
InsertByStart(sorted, x) ==
    IF sorted = <<>> THEN <<x>>
    ELSE IF x.start < Head(sorted).start THEN <<x>> \o sorted
    ELSE <<Head(sorted)>> \o InsertByStart(Tail(sorted), x)

RECURSIVE SortedByStart(_)
SortedByStart(rs) ==
    IF rs = <<>> THEN <<>>
    ELSE InsertByStart(SortedByStart(SubSeq(rs, 1, Len(rs) - 1)), rs[Len(rs)])

\* the mutant of LoopSegment: the ranges walked in source-chronological order
LoopSegmentSorted(rs, i) == SortedByStart(rs)[i + 1]

\* for i, seg in enumerate(segments): the segment of iteration i (from 0)
LoopSegment(rs, i) == rs[i + 1]

\* [0:v]trim=start={start}:end={end},setpts=PTS-STARTPTS[v{i}]
VideoTrim(seg, i) ==
    [stream |-> "v", start |-> seg.start, end |-> seg.end, label |-> i]

\* [0:a]atrim=start={start}:end={end},asetpts=PTS-STARTPTS[a{i}]
AudioTrim(seg, i) ==
    [stream |-> "a", start |-> seg.start, end |-> seg.end, label |-> i]

\* the mutant of ConcatInput: the pieces joined last to first
ConcatInputReversed(i, n) == [v |-> n - 1 - i, a |-> n - 1 - i]

\* concat_ins += f"[v{i}][a{i}]", iteration i of range(len(segments))
ConcatInput(i, n) == [v |-> i, a |-> i]

\* the trim of the filter graph that feeds the pad [v{label}]
VideoPart(parts, label) ==
    CHOOSE k \in 1..Len(parts) : parts[k].stream = "v" /\ parts[k].label = label

\* what the trim keeps of the source: nothing when end <= start
PieceDuration(part) == Max2(part.end - part.start, 0)

\* the concat filter: piece k starts where the pieces before it end
RECURSIVE OutputOffset(_, _, _)
OutputOffset(parts, ins, k) ==
    IF k = 1 THEN 0
    ELSE OutputOffset(parts, ins, k - 1)
           + PieceDuration(parts[VideoPart(parts, ins[k - 1].v)])

\* the timeline the filter graph describes: one entry per concat input
StitchPlan(parts, ins) ==
    [k \in 1..Len(ins) |->
        LET part == parts[VideoPart(parts, ins[k].v)]
        IN  [source_start  |-> part.start,
             source_end    |-> part.end,
             output_offset |-> OutputOffset(parts, ins, k)]]

InitStitch ==
    /\ pc = "concat_call"
    /\ ranges \in SeqsUpTo(RangePool, MaxRanges)
    /\ filter_parts = <<>>
    /\ concat_ins = <<>>
    /\ output = "none"
    /\ AnalyzerIdle
    /\ DetectIdle
    /\ CallerIdle

\* the mutant of NoRanges: the guard left out
AlwaysRanges(rs) == FALSE

\* if not segments
NoRanges(rs) == rs = <<>>

\* concat_segments_visual: entry; no segments, nothing is built; a loop
\* over no segments has no iteration
ConcatCall ==
    /\ pc = "concat_call"
    /\ IF NoRanges(ranges)
       THEN /\ output' = ""
            /\ pc' = "concat_ret"
       ELSE /\ output' = output
            /\ pc' = IF Len(ranges) = 0 THEN "concat_join" ELSE "concat_trim"
    /\ filter_parts' = <<>>
    /\ UNCHANGED <<ranges, concat_ins, analyzerVars, detectVars, callerVars>>

\* one iteration of `for i, seg in enumerate(segments)`
TrimStep ==
    /\ pc = "concat_trim"
    /\ LET i   == Len(filter_parts) \div 2
           seg == LoopSegment(ranges, i)
       IN  /\ filter_parts' = filter_parts \o <<VideoTrim(seg, i), AudioTrim(seg, i)>>
           /\ pc' = IF i + 1 = Len(ranges) THEN "concat_join" ELSE "concat_trim"
    /\ concat_ins' = <<>>
    /\ UNCHANGED <<ranges, output, analyzerVars, detectVars, callerVars>>

\* one iteration of `for i in range(len(segments))`
JoinStep ==
    /\ pc = "concat_join"
    /\ Len(concat_ins) < Len(ranges)
    /\ concat_ins' = Append(concat_ins, ConcatInput(Len(concat_ins), Len(ranges)))
    /\ UNCHANGED <<pc, ranges, filter_parts, output, analyzerVars, detectVars, callerVars>>

\* subprocess.run(cmd, check=True): the transcoder succeeds or the call raises
RunTranscoder ==
    /\ pc = "concat_join"
    /\ Len(concat_ins) = Len(ranges)
    /\ output' \in {"output_path", "raised"}
    /\ pc' = "concat_ret"
    /\ UNCHANGED <<ranges, filter_parts, concat_ins, analyzerVars, detectVars, callerVars>>

NextStitch ==
    \/ ConcatCall
    \/ TrimStep
    \/ JoinStep
    \/ RunTranscoder

SpecStitch == InitStitch /\ [][NextStitch]_vars

----------------------------------------------------------------------------
(* Two calls of cluster_colors in progress at once, each on its own list *)

\* colours of the samples of the two lists
PairColors == { <<0, 0, 0>>, <<0, 40, 0>>, <<20, 0, 0>> }

\* a list of samples as extract_average_colors returns it
SampleLists ==
    {[k \in 1..Len(q) |-> [color |-> q[k], speaker_id |-> NoId]] :
        q \in SeqsUpTo(PairColors, MaxPairSamples)}

\* the mutant of ClustersOf: one list for all calls
ClustersShared(rs, r) == rs[1].clusters

\* the list `clusters` a call reads: the local of that call
ClustersOf(rs, r) == rs[r].clusters

InitPair ==
    /\ pc = "pair"
    /\ runs \in [1..2 -> {[pc |-> "call", samples |-> l, threshold |-> th,
                           clusters |-> <<>>, idx |-> 0] :
                              l \in SampleLists, th \in Thresholds}]
    /\ AnalyzerIdle
    /\ StitchIdle
    /\ DetectIdle
    /\ SplitIdle
    /\ RunIdle

\* call r enters cluster_colors
PairCall(r) ==
    /\ runs[r].pc = "call"
    /\ runs' = [runs EXCEPT ![r] =
                  IF runs[r].samples = <<>>
                  THEN [@ EXCEPT !.pc = "ret"]
                  ELSE [@ EXCEPT !.pc = "loop", !.idx = 1,
                                 !.clusters = NewClusterList(runs[r].clusters)]]
    /\ UNCHANGED <<pc, analyzerVars, stitchVars, detectVars, splitVars, runVars>>

\* call r takes one iteration of `for sample in samples`
PairStep(r) ==
    /\ runs[r].pc = "loop"
    /\ runs[r].idx <= Len(runs[r].samples)
    /\ LET a == Assign(ClustersOf(runs, r), runs[r].samples[runs[r].idx].color,
                       runs[r].threshold)
       IN  runs' = [runs EXCEPT ![r].samples[runs[r].idx].speaker_id = a.id,
                                ![r].clusters = a.clusters,
                                ![r].idx = @ + 1]
    /\ UNCHANGED <<pc, analyzerVars, stitchVars, detectVars, splitVars, runVars>>

\* call r returns its samples
PairReturn(r) ==
    /\ runs[r].pc = "loop"
    /\ runs[r].idx > Len(runs[r].samples)
    /\ runs' = [runs EXCEPT ![r].pc = "ret"]
    /\ UNCHANGED <<pc, analyzerVars, stitchVars, detectVars, splitVars, runVars>>

NextPair ==
    \/ \E r \in 1..2 : PairCall(r)
    \/ \E r \in 1..2 : PairStep(r)
    \/ \E r \in 1..2 : PairReturn(r)

SpecPair == InitPair /\ [][NextPair]_vars

----------------------------------------------------------------------------
(* scripts/split_by_speaker.py main *)

\* the mutant of AddToGroup: a speaker's list begun anew at every segment
AddToGroupAnew(map, seg) ==
    IF \E k \in 1..Len(map) : map[k].speaker = seg.speaker
    THEN [k \in 1..Len(map) |->
            IF map[k].speaker = seg.speaker
            THEN [map[k] EXCEPT !.segs = <<seg>>] ELSE map[k]]
    ELSE Append(map, [speaker |-> seg.speaker, segs |-> <<seg>>])

\* if speaker not in speaker_map: speaker_map[speaker] = []
\* speaker_map[speaker].append(seg)
\* on a dict kept as the sequence of its (speaker, segs) items
AddToGroup(map, seg) ==
    IF \E k \in 1..Len(map) : map[k].speaker = seg.speaker
    THEN [k \in 1..Len(map) |->
            IF map[k].speaker = seg.speaker
            THEN [map[k] EXCEPT !.segs = Append(@, seg)] ELSE map[k]]
    ELSE Append(map, [speaker |-> seg.speaker, segs |-> <<seg>>])

\* get_speaker_segments(analysis_video, fps=0.5, threshold=40.0)
InitSplit ==
    /\ Init
    /\ interval = 2
    /\ threshold = 40

\* segments is back from get_speaker_segments; if not segments: return
SplitMain ==
    /\ pc = "segments_ret"
    /\ pc' = IF segments = <<>> THEN "split_ret" ELSE "split_group"
    /\ UNCHANGED <<analyzerVars, stitchVars, detectVars, callerVars>>

\* one iteration of `for seg in segments`
GroupSegment ==
    /\ pc = "split_group"
    /\ grouped < Len(segments)
    /\ speaker_map' = AddToGroup(speaker_map, segments[grouped + 1])
    /\ grouped' = grouped + 1
    /\ pc' = IF grouped + 1 = Len(segments) THEN "split_concat" ELSE pc
    /\ UNCHANGED <<calls, runs, runVars, analyzerVars, stitchVars, detectVars>>

\* one iteration of `for speaker, speaker_segs in speaker_map.items()`:
\* concat_segments_visual(video_path, speaker_segs, final_output) is entered
CallConcat ==
    /\ pc = "split_concat"
    /\ Len(calls) < Len(speaker_map)
    /\ ranges' = speaker_map[Len(calls) + 1].segs
    /\ filter_parts' = <<>>
    /\ concat_ins' = <<>>
    /\ output' = "none"
    /\ pc' = "concat_call"
    /\ UNCHANGED <<analyzerVars, detectVars, callerVars>>

\* the call is back, with a path or with the exception the except clause
\* prints; the loop goes on
ConcatDone ==
    /\ pc = "concat_ret"
    /\ Len(calls) < Len(speaker_map)
    /\ calls' = Append(calls, [speaker |-> speaker_map[Len(calls) + 1].speaker,
                               ranges  |-> ranges,
                               plan    |-> StitchPlan(filter_parts, concat_ins),
                               output  |-> output])
    /\ pc' = "split_concat"
    /\ UNCHANGED <<speaker_map, grouped, runs, runVars, analyzerVars, stitchVars,
                   detectVars>>

\* every speaker was processed
SplitReturn ==
    /\ pc = "split_concat"
    /\ Len(calls) = Len(speaker_map)
    /\ pc' = "split_ret"
    /\ UNCHANGED <<analyzerVars, stitchVars, detectVars, callerVars>>

NextSplit ==
    \/ ReadFrame
    \/ EndOfStream
    \/ ClusterCall
    \/ ClusterStep
    \/ ClusterReturn
    \/ BuildSegments
    \/ SplitMain
    \/ GroupSegment
    \/ CallConcat
    \/ ConcatCall
    \/ TrimStep
    \/ JoinStep
    \/ RunTranscoder
    \/ ConcatDone
    \/ SplitReturn

\* split_by_speaker run on a video, or concat_segments_visual called with a
\* list of its caller's own
SpecSplit == (InitSplit \/ InitStitch) /\ [][NextSplit]_vars

----------------------------------------------------------------------------
(* HighlightAgent.detect and Transcript.get_segments_in_range *)

Seg(a, b, who) == [start |-> a, end |-> b, speaker |-> who]

\* transcript segments a transcript may hold, each at most once and in any
\* order; the last one is malformed (end <= start)
SegPool ==
    { Seg(8, 25, "A"), Seg(25, 42, "B"), Seg(25, 30, "B"), Seg(30, 42, "A"),
      Seg(8, 37, "A"), Seg(20, 12, "B") }

Cand(a, b, score) == [start |-> a, end |-> b, virality_score |-> score]

\* candidates the LLM may propose, each with a virality score that passes
\* detect_highlights_llm's min_score of 6: two windows across a speaker
\* change, one inside a segment, one before any segment, one reversed, one
\* empty
CandidatePool ==
    { Cand(10, 40, 7), Cand(10, 40, 9), Cand(20, 42, 9), Cand(15, 25, 7),
      Cand(15, 25, 9), Cand(0, 8, 7),   Cand(40, 10, 9), Cand(30, 30, 7) }

\* config reels.min_duration
MinDurations == {15, 30}

\* max_highlights: a call that truncates and the default of detect
MaxHighlightsArgs == {1, 5}

\* sequences of at most n distinct elements of S
DistinctSeqsUpTo(S, n) ==
    {t \in SeqsUpTo(S, n) : \A a, b \in 1..Len(t) : a # b => t[a] # t[b]}

\* the mutant of InRange: a segment that only touches the window counts too
InRangeClosed(seg, start, end) == seg.end >= start /\ seg.start <= end

\* seg.end > start and seg.start < end
InRange(seg, start, end) == seg.end > start /\ seg.start < end

\* Transcript.get_segments_in_range
RECURSIVE SegmentsInRange(_, _, _)
SegmentsInRange(segs, start, end) ==
    IF segs = <<>> THEN <<>>
    ELSE IF InRange(Head(segs), start, end)
         THEN <<Head(segs)>> \o SegmentsInRange(Tail(segs), start, end)
         ELSE SegmentsInRange(Tail(segs), start, end)

\* min(seg.end, h.end) - max(seg.start, h.start)
ClippedDuration(seg, h) == Min2(seg.end, h.end) - Max2(seg.start, h.start)

\* speaker_durations[seg.speaker] = speaker_durations.get(seg.speaker, 0) + dur
\* on a dict kept as the sequence of its (speaker, dur) items in insertion order
AddDuration(sd, who, dur) ==
    IF \E k \in 1..Len(sd) : sd[k].speaker = who
    THEN [k \in 1..Len(sd) |->
            IF sd[k].speaker = who THEN [sd[k] EXCEPT !.dur = @ + dur] ELSE sd[k]]
    ELSE Append(sd, [speaker |-> who, dur |-> dur])

\* the mutant of Positive: an overlap of zero counted too
NonNegative(dur) == dur >= 0

\* if dur > 0
Positive(dur) == dur > 0

\* for seg in segments: accumulate the positive clipped durations
RECURSIVE SpeakerDurations(_, _, _)
SpeakerDurations(segs, h, sd) ==
    IF segs = <<>> THEN sd
    ELSE LET dur == ClippedDuration(Head(segs), h)
         IN  SpeakerDurations(Tail(segs), h,
                              IF Positive(dur) THEN AddDuration(sd, Head(segs).speaker, dur)
                              ELSE sd)

\* the mutant of Dominant: among equal durations the last item wins
DominantLast(sd) ==
    sd[CHOOSE k \in 1..Len(sd) :
         /\ \A j \in 1..Len(sd) : sd[j].dur <= sd[k].dur
         /\ \A j \in (k + 1)..Len(sd) : sd[j].dur < sd[k].dur]

\* max(speaker_durations, key=speaker_durations.get): the first item, in
\* insertion order, with the largest duration
Dominant(sd) ==
    sd[CHOOSE k \in 1..Len(sd) :
         /\ \A j \in 1..Len(sd) : sd[j].dur <= sd[k].dur
         /\ \A j \in 1..(k - 1) : sd[j].dur < sd[k].dur]

\* the mutant of RatioBelow: a ratio of exactly 0.9 sent to trimming
RatioBelowOrEqual(dur, total) == 10 * dur <= 9 * total

\* dominant_ratio < 0.9, with dominant_ratio = dur / total and total > 0
RatioBelow(dur, total) == 10 * dur < 9 * total

\* [s for s in segments if s.speaker == dominant_speaker]
RECURSIVE DomSegments(_, _)
DomSegments(segs, who) ==
    IF segs = <<>> THEN <<>>
    ELSE IF Head(segs).speaker = who
         THEN <<Head(segs)>> \o DomSegments(Tail(segs), who)
         ELSE DomSegments(Tail(segs), who)

\* the mutant of NewStart: the first dominant segment's start, unclipped
NewStartUnclipped(h, dom) == dom[1].start

\* max(h.start, dom_segments[0].start)
NewStart(h, dom) == Max2(h.start, dom[1].start)

\* a second mutant of NewEnd: the end of the first dominant segment
NewEndFirstBlock(h, dom) == Min2(h.end, dom[1].end)

\* the mutant of NewEnd: the end left where the candidate had it
NewEndUntrimmed(h, dom) == h.end

\* min(h.end, dom_segments[-1].end)
NewEnd(h, dom) == Min2(h.end, dom[Len(dom)].end)

\* the mutant of LongEnough: a window of exactly the minimum turned away
StrictlyLonger(dur, minDur) == dur > minDur

\* (new_end - new_start) >= reel_config['min_duration']
LongEnough(dur, minDur) == dur >= minDur

\* the mutant of TrimOutcome: the trimmed window appended whatever its length
TrimOutcomeKeepShort(h, dom, who, minDur) ==
    [keep |-> TRUE, why |-> "trimmed", speaker |-> who,
     start |-> NewStart(h, dom), end |-> NewEnd(h, dom)]

\* the trimmed window is taken when it is long enough; otherwise nothing
\* is appended for this candidate
TrimOutcome(h, dom, who, minDur) ==
    IF LongEnough(NewEnd(h, dom) - NewStart(h, dom), minDur)
    THEN [keep |-> TRUE, why |-> "trimmed", speaker |-> who,
          start |-> NewStart(h, dom), end |-> NewEnd(h, dom)]
    ELSE [keep |-> FALSE, why |-> "too_short"]

\* what the division by total_duration does to the call when it is zero
ZeroDivisionError == "ZeroDivisionError"

\* the body of `for h in highlights`: what becomes of one candidate
Refine(tr, h, minDur) ==
    LET segs == SegmentsInRange(tr, h.start, h.end)
        sd   == SpeakerDurations(segs, h, <<>>)
    IN  IF segs = <<>> THEN [keep |-> FALSE, why |-> "no_segments"]
        ELSE IF sd = <<>> THEN [keep |-> FALSE, why |-> "no_duration"]
        ELSE LET d     == Dominant(sd)
                 total == h.end - h.start
             IN  IF total = 0 THEN [keep |-> FALSE, why |-> ZeroDivisionError]
                 ELSE IF RatioBelow(d.dur, total)
                 THEN LET dom == DomSegments(segs, d.speaker)
                      IN  IF dom = <<>> THEN [keep |-> FALSE, why |-> "no_dominant"]
                          ELSE TrimOutcome(h, dom, d.speaker, minDur)
                 ELSE [keep |-> TRUE, why |-> "unchanged", speaker |-> d.speaker,
                       start |-> h.start, end |-> h.end]

\* the mutant of Updated: the loop works on a copy of the Highlight
Copied(h, r) == h

\* h.start = new_start; h.end = new_end: the Highlight object the loop
\* holds, after the iteration
Updated(h, r) ==
    IF r.keep /\ r.why = "trimmed"
    THEN [h EXCEPT !.start = r.start, !.end = r.end]
    ELSE h

\* cleaned_highlights.sort(key=virality_score, reverse=True): stable
RECURSIVE InsertByScore(_, _)
InsertByScore(sorted, x) ==
    IF sorted = <<>> THEN <<x>>
    ELSE IF x.virality_score > Head(sorted).virality_score THEN <<x>> \o sorted
    ELSE <<Head(sorted)>> \o InsertByScore(Tail(sorted), x)

RECURSIVE SortedByScore(_)
SortedByScore(hs) ==
    IF hs = <<>> THEN <<>>
    ELSE InsertByScore(SortedByScore(SubSeq(hs, 1, Len(hs) - 1)), hs[Len(hs)])

\* the mutant of Truncated: the tail of the list
TruncatedTail(hs, n) == SubSeq(hs, Len(hs) - Min2(Len(hs), n) + 1, Len(hs))

\* cleaned_highlights[:max_highlights]
Truncated(hs, n) == SubSeq(hs, 1, Min2(Len(hs), n))

InitDetect ==
    /\ pc = "detect_loop"
    /\ transcript \in DistinctSeqsUpTo(SegPool, MaxSegs)
    /\ min_duration \in MinDurations
    /\ max_highlights \in MaxHighlightsArgs
    /\ received = 0
    /\ candidate = <<>>
    /\ cleaned = <<>>
    /\ dropped = <<>>
    /\ result = <<>>
    /\ AnalyzerIdle
    /\ StitchIdle
    /\ CallerIdle

\* one iteration of `for h in highlights`, on the next Highlight of the list
\* detect_highlights_llm returned. candidate is that Highlight object as the
\* iteration leaves it, with the start and end it was given and the segments
\* get_segments_in_range returned for it; a kept highlight is the same
\* object, and carries besides the branch that kept it and the dominant
\* speaker found for it
RefineCandidate ==
    /\ pc = "detect_loop"
    /\ received < MaxCandidates
    /\ \E c \in CandidatePool :
         LET h == [id |-> received, start |-> c.start, end |-> c.end,
                   virality_score |-> c.virality_score]
             r == Refine(transcript, h, min_duration)
             o == Updated(h, r)
         IN  /\ candidate' = [id |-> o.id, start |-> o.start, end |-> o.end,
                              virality_score |-> o.virality_score,
                              given_start |-> h.start, given_end |-> h.end,
                              in_range |-> SegmentsInRange(transcript, h.start, h.end)]
             /\ IF r.keep
                THEN /\ cleaned' = Append(cleaned,
                                          [id |-> o.id, start |-> o.start, end |-> o.end,
                                           virality_score |-> o.virality_score,
                                           given_start |-> h.start, given_end |-> h.end,
                                           why |-> r.why, speaker |-> r.speaker])
                     /\ dropped' = dropped
                     /\ pc' = pc
                ELSE IF r.why = ZeroDivisionError
                THEN /\ pc' = "raised"
                     /\ UNCHANGED <<cleaned, dropped>>
                ELSE /\ cleaned' = cleaned
                     /\ dropped' = Append(dropped, h.id)
                     /\ pc' = pc
    /\ received' = received + 1
    /\ UNCHANGED <<transcript, min_duration, max_highlights, result,
                   analyzerVars, stitchVars, callerVars>>

\* the list is exhausted: sort, truncate, return
DetectReturn ==
    /\ pc = "detect_loop"
    /\ result' = Truncated(SortedByScore(cleaned), max_highlights)
    /\ pc' = "detect_ret"
    /\ UNCHANGED <<transcript, min_duration, max_highlights, received, candidate,
                   cleaned, dropped, analyzerVars, stitchVars, callerVars>>

NextDetect ==
    \/ RefineCandidate
    \/ DetectReturn

SpecDetect == InitDetect /\ [][NextDetect]_vars

----------------------------------------------------------------------------
(* run_highlights: the filters after agent.detect *)

\* speaker of a segment the transcription gave no speaker
None == "None"

\* segments of the transcripts run_highlights loads
RunSegPool ==
    { Seg(0, 10, "A"), Seg(10, 20, "B"), Seg(5, 12, None), Seg(20, 30, None) }

\* Transcript.total_duration
TotalDurations == {10, 30}

\* highlights agent.detect may return
ReturnedPool ==
    { Cand(0, 10, 9), Cand(5, 15, 9), Cand(10, 20, 8), Cand(20, 30, 8),
      Cand(0, 10, 7) }

\* [:5]
TopN == 5

\* h.start < transcript.total_duration
Valid(h, total) == h.start < total

\* set(seg.speaker for seg in segments if seg.speaker)
Speakers(segs) ==
    {segs[k].speaker : k \in {j \in 1..Len(segs) : segs[j].speaker # None}}

\* the mutant of SingleSpeaker: any highlight with a speaker in it
SomeSpeaker(segs) == Cardinality(Speakers(segs)) >= 1

\* len(speakers) == 1
SingleSpeaker(segs) == Cardinality(Speakers(segs)) = 1

\* the transcript is loaded; agent.detect returns its list, which the loop
\* below takes one highlight at a time
InitRun ==
    /\ pc = "run_filter"
    /\ transcript \in DistinctSeqsUpTo(RunSegPool, MaxSegs)
    /\ total_duration \in TotalDurations
    /\ taken = <<>>
    /\ scanned = 0
    /\ single_speaker_highlights = <<>>
    /\ written = <<>>
    /\ min_duration = 0 /\ max_highlights = 0 /\ received = 0
    /\ candidate = <<>> /\ cleaned = <<>> /\ dropped = <<>> /\ result = <<>>
    /\ AnalyzerIdle
    /\ StitchIdle
    /\ SplitIdle
    /\ runs = <<>>

\* the next highlight of the list agent.detect returned, which is sorted by
\* score: it passes the duration filter and the single-speaker filter, or is
\* left out
FilterHighlight ==
    /\ pc = "run_filter"
    /\ scanned < MaxReturned
    /\ \E c \in ReturnedPool :
         /\ scanned > 0 => c.virality_score <= taken.virality_score
         /\ LET h    == [id |-> scanned, start |-> c.start, end |-> c.end,
                         virality_score |-> c.virality_score]
                segs == SegmentsInRange(transcript, h.start, h.end)
            IN  /\ taken' = h
                /\ single_speaker_highlights' =
                     IF Valid(h, total_duration) /\ segs # <<>> /\ SingleSpeaker(segs)
                     THEN Append(single_speaker_highlights, h)
                     ELSE single_speaker_highlights
    /\ scanned' = scanned + 1
    /\ UNCHANGED <<pc, total_duration, written, analyzerVars, stitchVars,
                   detectVars, splitVars, runs>>

\* sorted(single_speaker_highlights, key=virality_score, reverse=True)[:5],
\* dumped to the output file
WriteHighlights ==
    /\ pc = "run_filter"
    /\ written' = Truncated(SortedByScore(single_speaker_highlights), TopN)
    /\ pc' = "run_ret"
    /\ UNCHANGED <<total_duration, taken, scanned, single_speaker_highlights,
                   analyzerVars, stitchVars, detectVars, splitVars, runs>>

NextRun ==
    \/ FilterHighlight
    \/ WriteHighlights

SpecRun == InitRun /\ [][NextRun]_vars

----------------------------------------------------------------------------
(* Properties of the analyzer *)

\* at least one sample has gone through the loop of cluster_colors
Scanned == pc \in {"cluster_loop", "cluster_ret", "segments_ret"} /\ idx > 1

\* the sample the latest iteration handled, and the id it was given
LastColor == samples[idx - 1].color
LastId == samples[idx - 1].speaker_id

\* squared distance of a colour to a centroid against the squared threshold
DistBelow(color, cen, th) == DistParts(color, cen).hi < th * th
DistEqual(color, cen, th) ==
    DistParts(color, cen).hi = th * th /\ DistParts(color, cen).rest = <<0, 0>>

\* the clusters of `before` within the threshold of the latest sample
Within == {i \in 1..Len(before) : DistBelow(LastColor, before[i], threshold)}
LowestWithin == CHOOSE i \in Within : \A j \in Within : i <= j

\* C5: the segments get_speaker_segments returns for a non-empty stream are
\* contiguous (each ends where the next starts), start at the first sample's
\* timestamp, end one sampling interval after the last sample's timestamp,
\* are ordered by start and do not overlap.
C5_SegmentContiguity ==
    (pc = "segments_ret" /\ samples # <<>>) =>
        /\ segments # <<>>
        /\ \A i \in 1..(Len(segments) - 1) : segments[i].end = segments[i + 1].start
        /\ segments[1].start = samples[1].timestamp
        /\ segments[Len(segments)].end = samples[Len(samples)].timestamp + interval
        /\ \A i, j \in 1..Len(segments) :
             i < j => /\ segments[i].start < segments[j].start
                      /\ segments[i].end <= segments[j].start

C5_Witness ==
    /\ pc = "segments_ret"
    /\ Len(segments) >= 3
    /\ segments[1].speaker = segments[3].speaker

\* C6: a second run of cluster_colors on the list the first run annotated
\* gives every sample the id the first run gave it.
C6_Determinism ==
    (run = 2 /\ pc \in {"cluster_loop", "cluster_ret"}) =>
        \A j \in 1..(idx - 1) : samples[j].speaker_id = firstIds[j]

C6_Witness ==
    /\ run = 2
    /\ pc = "cluster_ret"
    /\ Len(samples) >= 3
    /\ Ids(samples) = firstIds
    /\ \E j, k \in 1..Len(samples) : samples[j].speaker_id # samples[k].speaker_id

\* C7: a sample within the threshold of one or more clusters gets the id of
\* the lowest-numbered of them, whether or not a later one is nearer.
C7_FirstMatch ==
    (Scanned /\ Within # {}) => LastId = LowestWithin - 1

\* clusters 0 and 1 both within the threshold, cluster 1 strictly nearer,
\* and the sample got id 0
C7_Witness ==
    /\ Scanned
    /\ {1, 2} \subseteq Within
    /\ DistParts(LastColor, before[2]).hi < DistParts(LastColor, before[1]).hi
    /\ LastId = 0

\* C8: a cluster at distance exactly the threshold is not matched, and a
\* sample with every cluster at distance >= threshold opens a new cluster.
C8_StrictThreshold ==
    Scanned =>
        /\ \A i \in 1..Len(before) :
             DistEqual(LastColor, before[i], threshold) => LastId # i - 1
        /\ Within = {} => /\ LastId = Len(before)
                          /\ Len(clusters) = Len(before) + 1

\* a sample exactly at the threshold from the only cluster opened cluster 1
C8_Witness ==
    /\ Scanned
    /\ Len(before) = 1
    /\ DistEqual(LastColor, before[1], threshold)
    /\ LastId = 1
    /\ Len(clusters) = 2

\* C9: a sample no cluster matches adds exactly one cluster, whose centroid is
\* the sample's colour and whose id is the number of clusters there were; so
\* the first sample gets id 0 and the ids given so far are exactly 0..k-1.
C9_NewCluster ==
    Scanned =>
        /\ Within = {} =>
             /\ Len(clusters) = Len(before) + 1
             /\ SubSeq(clusters, 1, Len(before)) = before
             /\ clusters[Len(clusters)].c = LastColor
             /\ clusters[Len(clusters)].e = 0
             /\ LastId = Len(before)
        /\ samples[1].speaker_id = 0
        /\ {samples[j].speaker_id : j \in 1..(idx - 1)} = 0..(Len(clusters) - 1)

C9_Witness ==
    /\ Scanned
    /\ Within = {}
    /\ Len(before) = 2
    /\ LastId = 2
    /\ before[1].e > 0

\* C10: a sample that matches cluster k changes only cluster k's centroid,
\* to centroid*0.9 + color*0.1; the number of clusters and every other
\* centroid, those before k included, stay as they were.
C10_MatchUpdatesOne ==
    (Scanned /\ Within # {}) =>
        LET k == LowestWithin
        IN  /\ Len(clusters) = Len(before)
            /\ clusters[k].e = before[k].e + 1
            /\ \A j \in 1..3 :
                 clusters[k].c[j] =
                     9 * before[k].c[j] + LastColor[j] * Pow10(before[k].e)
            /\ \A i \in 1..Len(before) : i # k => clusters[i] = before[i]

\* a sample of another colour matched the second cluster, after the first
\* cluster had moved and been examined
C10_Witness ==
    /\ Scanned
    /\ Within # {}
    /\ LowestWithin = 2
    /\ before[1].e > 0
    /\ before[2].e = 0
    /\ LastColor # before[2].c
    /\ clusters[2] # before[2]

\* one iteration of the loop of cluster_colors is being taken
LoopIteration == pc = "cluster_loop" /\ idx' = idx + 1

\* C11: within a run of cluster_colors every iteration leaves the number of
\* clusters as it was or adds exactly one; every cluster there was keeps its
\* place in the list (its centroid unchanged or moved by one update), the ids
\* given to earlier samples stand, and there are never more clusters than
\* samples that went through the loop.
C11_ClustersOnlyGrow ==
    [][LoopIteration =>
        /\ Len(clusters') \in {Len(clusters), Len(clusters) + 1}
        /\ \A i \in 1..Len(clusters) :
             \/ clusters'[i] = clusters[i]
             \/ clusters'[i].e = clusters[i].e + 1
        /\ \A j \in 1..(idx - 1) : samples'[j].speaker_id = samples[j].speaker_id
        /\ Len(clusters') <= idx' - 1]_vars

\* four samples went through the loop: some added a cluster, some did not
C11_Witness ==
    /\ pc = "cluster_ret"
    /\ idx = 5
    /\ Len(clusters) = 2
    /\ samples[1].speaker_id = 0
    /\ samples[2].speaker_id = 0
    /\ samples[3].speaker_id = 1
    /\ samples[4].speaker_id = 0

\* C12: an empty sample list goes through cluster_colors and
\* get_speaker_segments without an error: no cluster is made, no id is given
\* and the segment list returned is empty.
C12_EmptyInput ==
    (samples = <<>> /\ pc \in {"cluster_ret", "segments_ret", "raised"}) =>
        /\ pc # "raised"
        /\ clusters = <<>>
        /\ Ids(samples) = <<>>
        /\ pc = "segments_ret" => segments = <<>>

C12_Witness ==
    /\ pc = "segments_ret"
    /\ samples = <<>>
    /\ run = 1
    /\ clusters = <<>>
    /\ segments = <<>>

\* the colours of a list of samples
ColorsOf(s) == [k \in 1..Len(s) |-> s[k].color]

\* C23: the id cluster_colors gives to a sample depends on the samples up to
\* it only: the ids of a run are those cluster_colors computes from the
\* colours, and clustering any prefix of the list alone gives the first ids
\* of clustering the whole list.
C23_NoLookahead ==
    pc = "cluster_ret" =>
        /\ Ids(samples) = ClusterColors(ColorsOf(samples), threshold)
        /\ \A n \in 0..Len(samples) :
             ClusterColors(SubSeq(ColorsOf(samples), 1, n), threshold)
                 = SubSeq(Ids(samples), 1, n)

\* the last sample opened a cluster of its own, the ones before it did not
\* all fall into one cluster, and a centroid had moved
C23_Witness ==
    /\ pc = "cluster_ret"
    /\ Len(samples) = MaxSamples
    /\ samples[Len(samples)].speaker_id = Len(clusters) - 1
    /\ Len(clusters) >= 3
    /\ \E i \in 1..Len(clusters) : clusters[i].e > 0

\* C25: every segment get_speaker_segments returns ends after it starts,
\* the last segment and the only segment of a one-sample stream included.
C25_SegmentsNonEmpty ==
    pc = "segments_ret" =>
        \A i \in 1..Len(segments) : segments[i].end > segments[i].start

\* a stream of one sample: one segment, one sampling interval long
C25_Witness ==
    /\ pc = "segments_ret"
    /\ Len(samples) = 1
    /\ Len(segments) = 1
    /\ segments[1].end = segments[1].start + interval

\* positions of the samples whose id differs from the id of the one before
Changes == {j \in 2..Len(samples) : samples[j].speaker_id # samples[j - 1].speaker_id}

\* C26: the segments are the maximal runs of equal cluster id: every segment
\* but the last ends at the timestamp of a sample whose id differs from the
\* one before it, a sample whose timestamp lies in [start, end) of a segment
\* has the id the segment's label carries, consecutive segments carry
\* different labels, and there is one segment more than there are changes of
\* id in the sample list.
C26_MaximalRuns ==
    (pc = "segments_ret" /\ samples # <<>>) =>
        /\ Len(segments) = Cardinality(Changes) + 1
        /\ \A i \in 1..(Len(segments) - 1) :
             /\ segments[i].speaker # segments[i + 1].speaker
             /\ \E j \in Changes : samples[j].timestamp = segments[i].end
        /\ \A i \in 1..Len(segments) : \A j \in 1..Len(samples) :
             (segments[i].start <= samples[j].timestamp
                /\ samples[j].timestamp < segments[i].end)
                 => segments[i].speaker = SpeakerLabel(samples[j].speaker_id)

\* samples at 0, 1, 2 with ids 0, 0, 1: segments (0, 2) and (2, 2 + interval)
C26_Witness ==
    /\ pc = "segments_ret"
    /\ interval = 1
    /\ Ids(samples) = <<0, 0, 1>>
    /\ segments = <<[start |-> 0, end |-> 2, speaker |-> "Speaker 0"],
                    [start |-> 2, end |-> 3, speaker |-> "Speaker 1"]>>

\* the samples a call has been through
Done(r) == IF runs[r].pc = "call" THEN 0
           ELSE IF runs[r].samples = <<>> THEN 0 ELSE runs[r].idx - 1

\* C24: of two cluster_colors calls on two lists, taking their iterations
\* in any order, each gives its samples the ids it gives them when it runs
\* alone; the clusters of a call are those its own samples opened, and a
\* call that has returned has given an id to every sample.
C24_RunsIndependent ==
    pc = "pair" =>
        \A r \in 1..2 :
            LET alone == ClusterColors(ColorsOf(runs[r].samples), runs[r].threshold)
            IN  /\ \A k \in 1..Len(runs[r].samples) :
                     runs[r].samples[k].speaker_id
                         = IF k <= Done(r) THEN alone[k] ELSE NoId
                /\ Len(runs[r].clusters)
                     = Cardinality({alone[k] : k \in 1..Done(r)})
                /\ runs[r].pc = "ret" => Done(r) = Len(runs[r].samples)

\* both calls are half way through lists of two samples, with cluster
\* lists that differ
C24_Witness ==
    /\ pc = "pair"
    /\ \A r \in 1..2 :
         /\ runs[r].pc = "loop"
         /\ Len(runs[r].samples) = 2
         /\ runs[r].idx = 2
    /\ runs[1].clusters # runs[2].clusters

----------------------------------------------------------------------------
(* Properties of concat_segments_visual *)

\* the filter graph is complete and was handed to the transcoder
Stitched == pc = "concat_ret" /\ output # ""

WellFormed(rs) == \A i \in 1..Len(rs) : rs[i].end > rs[i].start

RECURSIVE SumDurations(_, _)
SumDurations(rs, n) ==
    IF n = 0 THEN 0 ELSE SumDurations(rs, n - 1) + (rs[n].end - rs[n].start)

Plan == StitchPlan(filter_parts, concat_ins)

\* C1: for ranges with end > start, piece i of the output starts at offset_i,
\* with offset_0 = 0 and offset_{i+1} = offset_i + (end_i - start_i), so the
\* pieces tile [0, sum of the durations) without gap or overlap.
C1_StitchTiling ==
    (Stitched /\ WellFormed(ranges)) =>
        /\ Len(Plan) = Len(ranges)
        /\ Plan[1].output_offset = 0
        /\ \A i \in 1..(Len(ranges) - 1) :
             Plan[i + 1].output_offset =
                 Plan[i].output_offset + (ranges[i].end - ranges[i].start)
        /\ Plan[Len(Plan)].output_offset
             + (ranges[Len(ranges)].end - ranges[Len(ranges)].start)
               = SumDurations(ranges, Len(ranges))
        /\ \A t \in 0..(SumDurations(ranges, Len(ranges)) - 1) :
             Cardinality({i \in 1..Len(Plan) :
                 /\ Plan[i].output_offset <= t
                 /\ t < Plan[i].output_offset
                          + (Plan[i].source_end - Plan[i].source_start)}) = 1

C1_Witness ==
    /\ Stitched
    /\ output = "output_path"
    /\ WellFormed(ranges)
    /\ Len(ranges) = 3
    /\ ranges[1].end - ranges[1].start # ranges[3].end - ranges[3].start
    /\ Plan[3].output_offset = SumDurations(ranges, 2)

\* C2: the filter graph has one video trim and one audio trim per input
\* range, with that range's start and end, and joins them in the order the
\* caller gave, which need not be chronological; nothing is sorted, merged
\* or dropped.
C2_InputOrderKept ==
    Stitched =>
        /\ Len(filter_parts) = 2 * Len(ranges)
        /\ Len(concat_ins) = Len(ranges)
        /\ \A i \in 1..Len(ranges) :
             /\ filter_parts[2 * i - 1] =
                  [stream |-> "v", start |-> ranges[i].start,
                   end |-> ranges[i].end, label |-> i - 1]
             /\ filter_parts[2 * i] =
                  [stream |-> "a", start |-> ranges[i].start,
                   end |-> ranges[i].end, label |-> i - 1]
             /\ concat_ins[i] = [v |-> i - 1, a |-> i - 1]
             /\ Plan[i].source_start = ranges[i].start
             /\ Plan[i].source_end = ranges[i].end

\* the ranges (5,10), (20,22), (1,4) give offsets 0, 5, 7 and 10 s in all
C2_Witness ==
    /\ Stitched
    /\ ranges = << [start |-> 5, end |-> 10], [start |-> 20, end |-> 22],
                   [start |-> 1, end |-> 4] >>
    /\ Plan = << [source_start |-> 5, source_end |-> 10, output_offset |-> 0],
                 [source_start |-> 20, source_end |-> 22, output_offset |-> 5],
                 [source_start |-> 1, source_end |-> 4, output_offset |-> 7] >>
    /\ SumDurations(ranges, 3) = 10

----------------------------------------------------------------------------
(* Properties of split_by_speaker *)

\* C21: concat_segments_visual on an empty list returns "" with no filter
\* graph built and the transcoder not run; split_by_speaker hands it the
\* list of a speaker with at least one segment only, and calls it not at
\* all when get_speaker_segments found no segment.
C21_EmptyListNoOutput ==
    /\ (pc = "concat_ret" /\ ranges = <<>>) =>
         /\ output = ""
         /\ filter_parts = <<>>
         /\ concat_ins = <<>>
    /\ \A k \in 1..Len(speaker_map) : speaker_map[k].segs # <<>>
    /\ \A k \in 1..Len(calls) : calls[k].ranges # <<>> /\ calls[k].output # ""
    /\ (pc = "split_ret" /\ segments = <<>>) =>
         /\ speaker_map = <<>>
         /\ calls = <<>>
         /\ output = "none"

\* a call with no segment is back with the empty string
C21_Witness ==
    /\ pc = "concat_ret"
    /\ ranges = <<>>
    /\ output = ""
    /\ filter_parts = <<>>

\* the segments of all groups, counted
RECURSIVE GroupedCount(_)
GroupedCount(map) ==
    IF map = <<>> THEN 0 ELSE Len(Head(map).segs) + GroupedCount(Tail(map))

\* length of the output a plan describes
PlanDuration(plan) ==
    IF plan = <<>> THEN 0
    ELSE plan[Len(plan)].output_offset
           + (plan[Len(plan)].source_end - plan[Len(plan)].source_start)

RECURSIVE PlansDuration(_)
PlansDuration(cs) ==
    IF cs = <<>> THEN 0 ELSE PlanDuration(Head(cs).plan) + PlansDuration(Tail(cs))

\* C30: the grouping puts every segment placed so far in the group of its
\* own label and in no other, keeps a group in the order of the source with
\* a gap between any two of its segments, and when split_by_speaker returns
\* the plans of the groups last as long, together, as the sampled video:
\* last timestamp + 1/fps - first timestamp.
C30_SpeakerPartition ==
    /\ GroupedCount(speaker_map) = grouped
    /\ \A i \in 1..grouped :
         \E k \in 1..Len(speaker_map) :
             /\ speaker_map[k].speaker = segments[i].speaker
             /\ \E j \in 1..Len(speaker_map[k].segs) : speaker_map[k].segs[j] = segments[i]
    /\ \A k \in 1..Len(speaker_map) :
         /\ \A j \in 1..Len(speaker_map[k].segs) :
              speaker_map[k].segs[j].speaker = speaker_map[k].speaker
         /\ \A j \in 1..(Len(speaker_map[k].segs) - 1) :
              speaker_map[k].segs[j].end < speaker_map[k].segs[j + 1].start
         /\ \A m \in 1..Len(speaker_map) :
              m # k => speaker_map[m].speaker # speaker_map[k].speaker
    /\ (pc = "split_ret" /\ segments # <<>>) =>
         /\ Len(calls) = Len(speaker_map)
         /\ \A k \in 1..Len(calls) : calls[k].ranges = speaker_map[k].segs
         /\ PlansDuration(calls)
              = samples[Len(samples)].timestamp + interval - samples[1].timestamp

\* two speakers, the first heard twice with the second in between
C30_Witness ==
    /\ pc = "split_ret"
    /\ Len(speaker_map) = 2
    /\ Len(speaker_map[1].segs) = 2
    /\ Len(speaker_map[2].segs) >= 1
    /\ Len(calls[1].plan) = 2
    /\ calls[1].plan[2].output_offset > 0

----------------------------------------------------------------------------
(* Properties of HighlightAgent.detect *)

\* the window a kept highlight was given by the LLM
Given(k) == [start |-> k.given_start, end |-> k.given_end]

\* time a label holds inside a window, summed over the whole transcript
RECURSIVE LabelTime(_, _, _)
LabelTime(segs, who, w) ==
    IF segs = <<>> THEN 0
    ELSE (IF Head(segs).speaker = who /\ ClippedDuration(Head(segs), w) > 0
          THEN ClippedDuration(Head(segs), w) ELSE 0)
         + LabelTime(Tail(segs), who, w)

Labels == {transcript[i].speaker : i \in 1..Len(transcript)}

\* positions in the transcript of the segments of a label that overlap a window
OwnSegments(who, w) ==
    {i \in 1..Len(transcript) :
        /\ transcript[i].speaker = who
        /\ transcript[i].end > w.start
        /\ transcript[i].start < w.end}

\* C3: every highlight detect keeps, and every one it returns, starts no
\* earlier and ends no later than the candidate it came from.
C3_RefinementContainment ==
    /\ \A i \in 1..Len(cleaned) :
         /\ cleaned[i].given_start <= cleaned[i].start
         /\ cleaned[i].end <= cleaned[i].given_end
    /\ \A i \in 1..Len(result) :
         /\ result[i].given_start <= result[i].start
         /\ result[i].end <= result[i].given_end

\* one returned highlight had its start moved in, another had its end moved in
C3_Witness ==
    /\ pc = "detect_ret"
    /\ \E i \in 1..Len(result) :
         result[i].why = "trimmed" /\ result[i].start > result[i].given_start
    /\ \E i \in 1..Len(cleaned) :
         cleaned[i].why = "trimmed" /\ cleaned[i].end < cleaned[i].given_end

Window == [start |-> candidate.given_start, end |-> candidate.given_end]

\* the candidate the loop took last is the last highlight kept
LastKept == cleaned # <<>> /\ cleaned[Len(cleaned)].id = candidate.id

\* the candidate the loop took last is the last one dropped
LastDropped == dropped # <<>> /\ dropped[Len(dropped)] = candidate.id

\* positions in the transcript of the segments that overlap a window
Overlapping(w) ==
    {i \in 1..Len(transcript) :
        transcript[i].end > w.start /\ transcript[i].start < w.end}

\* overlap of the segment at a position with a window
Overlap(i, w) ==
    Min2(transcript[i].end, w.end) - Max2(transcript[i].start, w.start)

\* C13: a candidate with no transcript segment such that segment.end >
\* window.start and segment.start < window.end is dropped, and so is one whose
\* overlapping segments all have a clipped duration of zero or less; the
\* segments looked up for a candidate are exactly those that pass the strict
\* test, so one that only touches a boundary of the window is not among them.
C13_NoOverlapRejected ==
    received > 0 =>
        LET w  == Window
            ov == Overlapping(w)
        IN  /\ Len(candidate.in_range) = Cardinality(ov)
            /\ \A k \in 1..Len(candidate.in_range) :
                 /\ candidate.in_range[k].end > w.start
                 /\ candidate.in_range[k].start < w.end
            /\ ov = {} => LastDropped /\ ~LastKept
            /\ (\A i \in ov : Overlap(i, w) <= 0) => LastDropped /\ ~LastKept

\* a candidate dropped for want of overlap, with a segment that starts
\* where the window ends
C13_Witness ==
    /\ received > 0
    /\ Window.start < Window.end
    /\ LastDropped
    /\ candidate.in_range = <<>>
    /\ \E i \in 1..Len(transcript) :
         /\ transcript[i].start = Window.end
         /\ transcript[i].start < transcript[i].end

\* position of the first segment of a label that adds time inside a window
FirstHeard(who, w) ==
    CHOOSE a \in 1..Len(transcript) :
        /\ transcript[a].speaker = who /\ a \in Overlapping(w) /\ Overlap(a, w) > 0
        /\ \A b \in 1..(a - 1) :
             ~(transcript[b].speaker = who /\ b \in Overlapping(w) /\ Overlap(b, w) > 0)

\* C14: the dominant label of a kept highlight holds the largest total
\* clipped duration in the candidate; a label holding as much comes later in
\* segment order: its first segment adding time to the window follows the
\* dominant label's.
C14_DominantLabel ==
    \A i \in 1..Len(cleaned) :
        LET k == cleaned[i]
            w == Given(k)
        IN  /\ LabelTime(transcript, k.speaker, w) > 0
            /\ \A who \in Labels \ {k.speaker} :
                 \/ LabelTime(transcript, who, w) < LabelTime(transcript, k.speaker, w)
                 \/ /\ LabelTime(transcript, who, w) = LabelTime(transcript, k.speaker, w)
                    /\ FirstHeard(k.speaker, w) < FirstHeard(who, w)

\* window (10, 40) over (8, 25, A), (25, 42, B): fifteen seconds each, A wins
C14_Witness ==
    /\ transcript = <<Seg(8, 25, "A"), Seg(25, 42, "B")>>
    /\ \E i \in 1..Len(cleaned) :
         /\ cleaned[i].given_start = 10 /\ cleaned[i].given_end = 40
         /\ cleaned[i].speaker = "A"
         /\ LabelTime(transcript, "A", Given(cleaned[i])) = 15
         /\ LabelTime(transcript, "B", Given(cleaned[i])) = 15

\* the largest time any label holds inside a window
MaxLabelTime(w) ==
    LET times == {LabelTime(transcript, who, w) : who \in Labels} \cup {0}
    IN  CHOOSE t \in times : \A u \in times : u <= t

\* C15: a candidate whose dominant label holds nine tenths of the window or
\* more, exactly nine tenths included, is kept with the start and end it was
\* given; a highlight is trimmed only when the ratio is strictly below 0.9.
C15_RatioThreshold ==
    received > 0 =>
        LET w == Window
            t == MaxLabelTime(w)
        IN  /\ (t > 0 /\ 10 * t >= 9 * (w.end - w.start)) =>
                 /\ LastKept
                 /\ cleaned[Len(cleaned)].why = "unchanged"
                 /\ cleaned[Len(cleaned)].start = w.start
                 /\ cleaned[Len(cleaned)].end = w.end
            /\ (LastKept /\ cleaned[Len(cleaned)].why = "trimmed") =>
                 10 * t < 9 * (w.end - w.start)

\* a candidate at exactly nine tenths, with another label heard in it, kept
\* as it was given
C15_Witness ==
    /\ received > 0
    /\ LastKept
    /\ 10 * MaxLabelTime(Window) = 9 * (Window.end - Window.start)
    /\ \E who \in Labels :
         /\ who # cleaned[Len(cleaned)].speaker
         /\ LabelTime(transcript, who, Window) > 0
    /\ cleaned[Len(cleaned)].start = Window.start
    /\ cleaned[Len(cleaned)].end = Window.end

\* the label that holds the most time in a window, the first heard among equals
DominantLabel(w) ==
    CHOOSE who \in Labels :
        /\ LabelTime(transcript, who, w) = MaxLabelTime(w)
        /\ \A other \in Labels \ {who} :
             LabelTime(transcript, other, w) = MaxLabelTime(w)
                 => FirstHeard(who, w) < FirstHeard(other, w)

\* the window from the first overlapping segment of the dominant label to
\* the last, clipped to the candidate
ExpectedTrim(w) ==
    LET own == OwnSegments(DominantLabel(w), w)
        lo  == CHOOSE a \in own : \A b \in own : a <= b
        hi  == CHOOSE a \in own : \A b \in own : a >= b
    IN  [start |-> Max2(w.start, transcript[lo].start),
         end   |-> Min2(w.end, transcript[hi].end)]

\* the dominant label of a window holds less than nine tenths of it
BelowRatio(w) ==
    MaxLabelTime(w) > 0 /\ 10 * MaxLabelTime(w) < 9 * (w.end - w.start)

\* C16: a candidate below the ratio is trimmed to new_start = max(window.start,
\* start of the first dominant segment) and new_end = min(window.end, end of
\* the last dominant segment); it is kept, with that start and end, exactly
\* when new_end - new_start >= min_duration, and dropped otherwise, so no
\* trimmed highlight is shorter than min_duration.
C16_TrimOrReject ==
    /\ received > 0 /\ BelowRatio(Window) =>
         LET e == ExpectedTrim(Window)
         IN  IF e.end - e.start >= min_duration
             THEN /\ LastKept
                  /\ cleaned[Len(cleaned)].why = "trimmed"
                  /\ cleaned[Len(cleaned)].start = e.start
                  /\ cleaned[Len(cleaned)].end = e.end
             ELSE LastDropped /\ ~LastKept
    /\ \A i \in 1..Len(cleaned) :
         cleaned[i].why = "trimmed" => cleaned[i].end - cleaned[i].start >= min_duration

\* a trimmed window of exactly min_duration was kept, and the candidate after
\* it was dropped for a trimmed window shorter than that
C16_Witness ==
    /\ received > 1
    /\ \E i \in 1..Len(cleaned) :
         /\ cleaned[i].why = "trimmed"
         /\ cleaned[i].end - cleaned[i].start = min_duration
    /\ LastDropped
    /\ BelowRatio(Window)
    /\ ExpectedTrim(Window).end - ExpectedTrim(Window).start < min_duration
    /\ ExpectedTrim(Window).end - ExpectedTrim(Window).start > 0

HighlightIds(hs) == {hs[i].id : i \in 1..Len(hs)}

\* ids of the candidates dropped
DroppedIds == {dropped[i] : i \in 1..Len(dropped)}

\* the refinement has no window to keep for a candidate: no label holds
\* time in it, or the trimmed window is shorter than min_duration
NothingToKeep(w) ==
    \/ MaxLabelTime(w) = 0
    \/ /\ BelowRatio(w)
       /\ ExpectedTrim(w).end - ExpectedTrim(w).start < min_duration

\* C18: detect raises nothing over a rejection; every candidate taken from
\* the list is either kept or dropped, never both, the loop going on after a
\* drop; a candidate the refinement has no window for is dropped, and no
\* dropped candidate is in the list detect returns, which holds kept
\* highlights only.
C18_RejectionIsNormal ==
    /\ pc # "raised"
    /\ received = Len(cleaned) + Len(dropped)
    /\ HighlightIds(cleaned) \cup DroppedIds = 0..(received - 1)
    /\ HighlightIds(cleaned) \cap DroppedIds = {}
    /\ received > 0 /\ NothingToKeep(Window) => LastDropped /\ ~LastKept
    /\ \A i \in 1..Len(result) :
         /\ result[i].id \notin DroppedIds
         /\ \E j \in 1..Len(cleaned) : cleaned[j] = result[i]

\* the first candidate was dropped, the second was kept and is returned
C18_Witness ==
    /\ pc = "detect_ret"
    /\ dropped = <<0>>
    /\ HighlightIds(cleaned) = {1}
    /\ HighlightIds(result) = {1}

\* C22: detect returns kept highlights in non-increasing order of virality
\* score, at most max_highlights of them and as many as there are when there
\* are fewer; no kept highlight left out has a higher score than one returned.
C22_SortedAndTruncated ==
    pc = "detect_ret" =>
        /\ Len(result) <= max_highlights
        /\ Len(result) = Min2(Len(cleaned), max_highlights)
        /\ \A i \in 1..(Len(result) - 1) :
             result[i].virality_score >= result[i + 1].virality_score
        /\ HighlightIds(result) \subseteq HighlightIds(cleaned)
        /\ \A j \in 1..Len(cleaned) :
             cleaned[j].id \notin HighlightIds(result) =>
                 \A i \in 1..Len(result) :
                     cleaned[j].virality_score <= result[i].virality_score

\* two highlights kept, the lower score first; the higher one alone returned
C22_Witness ==
    /\ pc = "detect_ret"
    /\ max_highlights = 1
    /\ Len(cleaned) = 2
    /\ cleaned[1].virality_score < cleaned[2].virality_score
    /\ Len(result) = 1
    /\ result[1].id = cleaned[2].id

\* C28: the division by the window length is never a division by zero or
\* by a negative number: detect does not raise, a candidate with end <= start
\* is dropped whatever the transcript, and every kept highlight comes from a
\* candidate with end > start in which a label holds positive time.
C28_NoZeroDivision ==
    /\ pc # "raised"
    /\ (received > 0 /\ Window.end <= Window.start) => LastDropped /\ ~LastKept
    /\ \A i \in 1..Len(cleaned) :
         /\ cleaned[i].given_end > cleaned[i].given_start
         /\ MaxLabelTime(Given(cleaned[i])) > 0

\* a candidate of length zero with a segment in its range, dropped
C28_Witness ==
    /\ received > 0
    /\ Window.end = Window.start
    /\ candidate.in_range # <<>>
    /\ LastDropped

\* the transcript is ordered by start and no two of its segments overlap
Chronological ==
    \A a \in 1..(Len(transcript) - 1) :
        /\ transcript[a].start <= transcript[a + 1].start
        /\ transcript[a].end <= transcript[a + 1].start

C19_MalformedSegmentFailsLoudly ==
    (/\ received > 0
     /\ \E i \in 1..Len(transcript) : transcript[i].end <= transcript[i].start)
        => pc = "raised"

----------------------------------------------------------------------------
(* concat_segments_visual on ranges with end <= start *)

\* C20 as claimed: on a list holding a range with end <= start the call
\* raises before it builds anything, so no filter graph has a trim with
\* end <= start.
C20_MalformedRangeFailsLoudly ==
    /\ (pc # "concat_call" /\ ~WellFormed(ranges)) =>
         /\ filter_parts = <<>>
         /\ concat_ins = <<>>
         /\ pc = "concat_ret" /\ output = "raised"
    /\ \A k \in 1..Len(filter_parts) : filter_parts[k].end > filter_parts[k].start

----------------------------------------------------------------------------
(* Properties of run_highlights *)

\* labels of the transcript segments that overlap [start, end) of a highlight
LabelsIn(h) ==
    {transcript[i].speaker : i \in {j \in Overlapping(h) : transcript[j].speaker # None}}

\* C27: every highlight run_highlights writes starts before
\* transcript.total_duration, is overlapped by a transcript segment, and has
\* one speaker label, the same on every overlapping segment that has one; at
\* most five are written, by non-increasing virality score, all of them
\* taken from the highlights that passed the filters.
C27_WrittenSingleSpeaker ==
    /\ \A i \in 1..Len(single_speaker_highlights) :
         LET h == single_speaker_highlights[i]
         IN  /\ h.start < total_duration
             /\ Overlapping(h) # {}
             /\ Cardinality(LabelsIn(h)) = 1
    /\ Len(written) <= 5
    /\ \A i \in 1..Len(written) :
         \E j \in 1..Len(single_speaker_highlights) :
             written[i] = single_speaker_highlights[j]
    /\ \A i \in 1..(Len(written) - 1) :
         written[i].virality_score >= written[i + 1].virality_score

\* six highlights passed the filters and five were written, one of them
\* over a segment without speaker; the list had one more highlight, of two
\* speakers, left out
C27_Witness ==
    /\ pc = "run_ret"
    /\ scanned = 7
    /\ Len(single_speaker_highlights) = 6
    /\ Len(written) = 5
    /\ \E i \in 1..Len(written) :
         \E a \in Overlapping(written[i]) : transcript[a].speaker = None

====
